---- MODULE Spec2Model ----
(***************************************************************************)
(* MedGuide: page-parallel lab-report pipeline (app/main.py and            *)
(* app/streamlit_app.py), knowledge indexer (vectordb/create_vector_db.py) *)
(* and retrieval-gated answer pipeline (agents/chat_agent.py).             *)
(*                                                                         *)
(* Three specifications share the variables:                               *)
(*   Spec       the two entry points running the pipeline                  *)
(*   SpecIndex  create_vectordb_from_pdfs_and_outputs on arbitrary inputs  *)
(*   SpecChat   chat_agent() and answer() on arbitrary inputs              *)
(***************************************************************************)
EXTENDS Integers, Sequences, FiniteSets, TLC

\* ------------------------------------------------------------- bounds
MaxPages == 2      \* pages of an input PDF
MaxMatches == 3    \* documents the vector store returns for one search
MaxTopK == 2       \* largest configured top_k
MaxMinDocs == 2    \* largest configured min_docs_for_confident_answer
MaxQueries == 2    \* answer() calls in one behaviour of SpecChat

\* ------------------------------------------------------------- text
\* A Python str is a sequence of one-character strings; None is the Python None.
None == <<"None">>

Truthy(v) == v # None /\ v # <<>>

IsSpace(c) == c = " "

RECURSIVE LStrip(_)
LStrip(s) == IF s # <<>> /\ IsSpace(Head(s)) THEN LStrip(Tail(s)) ELSE s

RECURSIVE RStrip(_)
RStrip(s) ==
  IF s # <<>> /\ IsSpace(s[Len(s)]) THEN RStrip(SubSeq(s, 1, Len(s) - 1)) ELSE s

\* str.strip()
Strip(s) == RStrip(LStrip(s))

PromptBudget == 15000

\* s[:n] for n >= 0
Take(s, n) == SubSeq(s, 1, IF n < Len(s) THEN n ELSE Len(s))

SliceLenUncut(n, k) == n

\* len(xs[:k]) for any integer k (a negative k counts from the end)
SliceLen(n, k) ==
  IF k >= 0 THEN (IF k < n THEN k ELSE n)
  ELSE (IF n + k > 0 THEN n + k ELSE 0)

\* ------------------------------------------------------------- files
PageFile(n) == [stem |-> "page", n |-> n, ext |-> "txt"]
FinalReportFile == [stem |-> "final_report", n |-> 0, ext |-> "txt"]
OutputNames == {PageFile(n) : n \in 1..MaxPages} \cup {FinalReportFile}

\* A file of the outputs directory: its text, and whether it was there before
\* the current run began (stale).
NoFile == [text |-> None, stale |-> FALSE]

\* Entries the pdfs directory may hold: a text file, a directory whose name
\* ends in .txt, and a file of another type.
ReferenceTxt == [stem |-> "reference", n |-> 0, ext |-> "txt", is_file |-> TRUE]
FolderTxt == [stem |-> "folder", n |-> 0, ext |-> "txt", is_file |-> FALSE]
ScanPdf == [stem |-> "scan", n |-> 0, ext |-> "pdf", is_file |-> TRUE]
PdfsEntries == {ReferenceTxt, FolderTxt, ScanPdf}

VARIABLES
  entry,             \* the entry point: "cli" (app/main.py) or "st" (streamlit)
  swept,             \* page files the clean-up of the current run removed
  pc,                \* position of the entry point in its run
  ended,             \* how the last run of the entry point ended
  pdf,               \* the input PDF of the run
  tasks,             \* the page tasks of the batch being gathered
  finished,          \* their indices in completion order
  results,           \* extract_blood_report_async's gathered results
  pages,             \* run_pipeline's pages
  page_outputs,      \* run_pipeline's page_outputs
  final_report_text, \* run_pipeline's final_report_text
  synth,             \* the generate_final_report calls of the run
  sess,              \* st.session_state
  uploaded,          \* the file in the st.file_uploader widget
  process_clicked,   \* "Process report" was clicked for the last script run
  keySet,            \* OPENAI_API_KEY is in the process environment
  outputs,           \* data/knowledge_base/outputs: name -> file or NoFile
  pdfsDir,           \* data/knowledge_base/pdfs: set of entries
  lancedb,           \* data/lancedb: [exists, entries]
  ipc,               \* position inside create_vectordb_from_pdfs_and_outputs
  recreate,          \* its recreate argument
  pdf_txt_files,     \* its collected lists
  output_txt_files,
  ingested,          \* paths the two loops have passed
  count,             \* its count local
  iresult,           \* how the last call ended
  prior,             \* the index directory as the current call found it
  chat,              \* what chat_agent() has built, and its configuration
  ans,               \* the last answer() call
  asked              \* number of answer() calls so far

indexVars ==
  <<lancedb, ipc, recreate, pdf_txt_files, output_txt_files, ingested,
    count, iresult, prior>>

chatVars == <<chat, ans, asked>>

pipeVars ==
  <<entry, swept, pc, ended, pdf, tasks, finished, results, pages,
    page_outputs, final_report_text, synth, sess, uploaded,
    process_clicked>>

vars == <<pipeVars, keySet, outputs, pdfsDir, indexVars, chatVars>>

\* ------------------------------------------------------------- indexer
EmptyIndexDir == [exists |-> TRUE, entries |-> {}]
NoIndexDir == [exists |-> FALSE, entries |-> {}]

\* An index left by an earlier build: its entries are old.
OldEntry ==
  [source |-> "output", path |-> [dir |-> "outputs", name |-> PageFile(1)],
   old |-> TRUE]
OldIndexDir == [exists |-> TRUE, entries |-> {OldEntry}]

\* The entries a call finds are old to it.
Aged(dir) == [dir EXCEPT !.entries = {[e EXCEPT !.old = TRUE] : e \in @}]

\* At the start of a pipeline run whatever the index holds is of an earlier
\* build; which files it came from is not read again.
Forgotten(dir) == IF dir.entries = {} THEN dir ELSE OldIndexDir

\* The three directories under base_dir, as path components.
PdfsSubdir == <<"data", "knowledge_base", "pdfs">>
OutputsSubdir == <<"data", "knowledge_base", "outputs">>

LancedbSubdirData == <<"data">>

LancedbSubdir == <<"data", "lancedb">>

\* path is root or lies below it
IsUnder(path, root) ==
  Len(root) <= Len(path) /\ SubSeq(path, 1, Len(root)) = root

\* What shutil.rmtree(lancedb_dir) leaves of a directory at subdir: nothing
\* if the directory lies in the removed tree, else its content.
AfterRmTree(flag, dir, subdir, content, nothing) ==
  IF flag /\ dir.exists /\ IsUnder(subdir, LancedbSubdir)
    THEN nothing ELSE content

PrepareIndexDirKeep(flag, dir) == [dir EXCEPT !.exists = TRUE]

\* if recreate and lancedb_dir.exists(): rmtree; then mkdir(exist_ok=True)
PrepareIndexDir(flag, dir) ==
  IF flag /\ dir.exists THEN EmptyIndexDir ELSE [dir EXCEPT !.exists = TRUE]

\* [f for f in pdfs_dir.glob("*.txt") if f.is_file()]
PdfTxtFiles(dir) ==
  {[dir |-> "pdfs", name |-> [stem |-> e.stem, n |-> e.n, ext |-> e.ext]] :
     e \in {x \in dir : x.ext = "txt" /\ x.is_file}}

\* [f for f in outputs_dir.glob("*.txt") if f.is_file()]
OutputTxtFiles(out) ==
  {[dir |-> "outputs", name |-> f] :
     f \in {x \in OutputNames : out[x] # NoFile /\ x.ext = "txt"}}

NoTxtFilesEither(pdfs, outs) == pdfs = {} \/ outs = {}

\* if not pdf_txt_files and not output_txt_files
NoTxtFiles(pdfs, outs) == pdfs = {} /\ outs = {}

\* An embedding call needs the provider key; with the key it may still fail.
CallOutcomes == IF keySet THEN {"ok", "raise"} ELSE {"raise"}

\* The two text directories after the directory step of a call that finds
\* out in the outputs directory.
PrepareTxtDirs(flag, out) ==
  /\ outputs' = AfterRmTree(flag, lancedb, OutputsSubdir, out,
                            [f \in OutputNames |-> NoFile])
  /\ pdfsDir' = AfterRmTree(flag, lancedb, PdfsSubdir, pdfsDir, {})

\* The call up to its first add_content: the directory step, the two globs
\* (over the two directories as they are after it) and the check for files.
CreateCollect(flag, out) ==
  /\ ipc = "idle"
  /\ recreate' = flag
  /\ prior' = lancedb
  /\ pdf_txt_files' = PdfTxtFiles(pdfsDir')
  /\ output_txt_files' = OutputTxtFiles(out)
  /\ ingested' = {}
  /\ count' = 0
  /\ IF NoTxtFiles(pdf_txt_files', output_txt_files')
       THEN ipc' = "idle" /\ iresult' = "FileNotFoundError"
       ELSE ipc' = "ingest" /\ iresult' = "running"

CreateBegin(flag) ==
  /\ lancedb' = PrepareIndexDir(flag, Aged(lancedb))
  /\ PrepareTxtDirs(flag, outputs)
  /\ CreateCollect(flag, outputs')

\* The files the two loops have still to pass to add_content: those of the
\* pdfs directory first, then those of the outputs directory.
NextToIngest(done) ==
  IF pdf_txt_files \ done # {} THEN pdf_txt_files \ done
  ELSE output_txt_files \ done

SourceOf(path) == IF path.dir = "pdfs" THEN "pdf" ELSE "output"

\* An add_content that put the directory back as the call found it when it
\* fails: what a rollback would be.
AddContentRollback ==
  /\ ipc = "ingest"
  /\ \E path \in NextToIngest(ingested), outcome \in CallOutcomes :
       IF outcome = "ok"
         THEN /\ lancedb' =
                   [lancedb EXCEPT !.entries = @ \cup
                      {[source |-> SourceOf(path), path |-> path,
                        old |-> FALSE]}]
              /\ ingested' = ingested \cup {path}
              /\ count' = count + 1
              /\ UNCHANGED <<ipc, iresult>>
         ELSE /\ ipc' = "idle"
              /\ iresult' = "AddContentError"
              /\ lancedb' = Aged(prior)
              /\ UNCHANGED <<ingested, count>>
  /\ UNCHANGED <<recreate, pdf_txt_files, output_txt_files, prior>>

\* knowledge.add_content(path=..., reader=reader, metadata=...); count += 1
AddContent ==
  /\ ipc = "ingest"
  /\ \E path \in NextToIngest(ingested), outcome \in CallOutcomes :
       IF outcome = "ok"
         THEN /\ lancedb' =
                   [lancedb EXCEPT !.entries = @ \cup
                      {[source |-> SourceOf(path), path |-> path,
                        old |-> FALSE]}]
              /\ ingested' = ingested \cup {path}
              /\ count' = count + 1
              /\ UNCHANGED <<ipc, iresult>>
         ELSE /\ ipc' = "idle"
              /\ iresult' = "AddContentError"
              /\ UNCHANGED <<lancedb, ingested, count>>
  /\ UNCHANGED <<recreate, pdf_txt_files, output_txt_files, prior>>

\* The caller has taken the call's result or exception: its locals are gone.
IndexCallOver ==
  /\ ipc' = "idle"
  /\ recreate' = FALSE
  /\ pdf_txt_files' = {}
  /\ output_txt_files' = {}
  /\ ingested' = {}
  /\ count' = 0
  /\ iresult' = "none"
  /\ prior' = NoIndexDir

\* return knowledge
CreateReturn ==
  /\ ipc = "ingest"
  /\ NextToIngest(ingested) = {}
  /\ ipc' = "idle"
  /\ iresult' = "returned"
  /\ UNCHANGED <<lancedb, recreate, pdf_txt_files, output_txt_files,
                 ingested, count, prior>>

\* ------------------------------------------------------------- chat agent
RefusalSentence ==
  "Sorry, I can only help with lab reports and medical test interpretation."

NoAgent ==
  [agent |-> "none", top_k |-> 0, min_docs |-> 0, db |-> FALSE,
   knowledge |-> FALSE, error |-> "none"]

NoAnswer ==
  [status |-> "none", search |-> "none", matches |-> 0, count |-> 0,
   prompt |-> "none", guard |-> "none", web_search |-> FALSE, runs |-> 0,
   model |-> "none", in_domain |-> TRUE, text |-> "none"]

InitChatVars ==
  /\ chat = NoAgent
  /\ ans = NoAnswer
  /\ asked = 0

\* chat_agent(...): the key check comes first, then the history database, the
\* vector-store client and the agent are built.
ChatAgentBuild(key, k, m) ==
  IF ~key
    THEN [NoAgent EXCEPT !.error = "RuntimeError"]
    ELSE [agent |-> "created", top_k |-> k, min_docs |-> m, db |-> TRUE,
          knowledge |-> TRUE, error |-> "none"]

ChatAgentCreate(k, m) ==
  /\ chat.agent = "none"
  /\ chat' = ChatAgentBuild(keySet, k, m)
  /\ UNCHANGED <<ans, asked>>

\* What knowledge.vector_db.search may do: raise IndexError, raise another
\* exception, return None, or return a list of n documents.
SearchOutcomes ==
  {[kind |-> "IndexError", n |-> 0], [kind |-> "Exception", n |-> 0],
   [kind |-> "None", n |-> 0]}
    \cup {[kind |-> "list", n |-> n] : n \in 0..MaxMatches}

RetrieveOnlyIndexError(s) ==
  CASE s.kind = "IndexError" -> [propagates |-> FALSE, n |-> 0]
    [] s.kind = "Exception" -> [propagates |-> TRUE, n |-> 0]
    [] s.kind = "None" -> [propagates |-> FALSE, n |-> 0]
    [] OTHER -> [propagates |-> FALSE, n |-> s.n]

\* try: retrieved = search(query) or []; except IndexError / except Exception:
\* retrieved = []
Retrieve(s) ==
  CASE s.kind = "IndexError" -> [propagates |-> FALSE, n |-> 0]
    [] s.kind = "Exception" -> [propagates |-> FALSE, n |-> 0]
    [] s.kind = "None" -> [propagates |-> FALSE, n |-> 0]
    [] OTHER -> [propagates |-> FALSE, n |-> s.n]

GateInclusive(cnt, min_docs) == IF cnt <= min_docs THEN "weak" ELSE "strong"

\* if count < min_docs_for_confident_answer: weak-context prompt, else the
\* strong-context prompt
Gate(cnt, min_docs) == IF cnt < min_docs THEN "weak" ELSE "strong"

WeakPromptUnguarded(cnt) ==
  [kind |-> "weak", guard |-> "none", web_search |-> TRUE,
   context_docs |-> cnt]

\* The weak-context template: the out-of-domain guard, the question, the
\* invitation to call the web search tool, the local context
WeakPrompt(cnt) ==
  [kind |-> "weak", guard |-> RefusalSentence, web_search |-> TRUE,
   context_docs |-> cnt]

\* The strong-context template: the out-of-domain guard, the question and
\* the retrieved context
StrongPrompt(cnt) ==
  [kind |-> "strong", guard |-> RefusalSentence, web_search |-> FALSE,
   context_docs |-> cnt]

\* The prompt of the branch the gate selects.
Prompt(kind, cnt) == IF kind = "weak" THEN WeakPrompt(cnt) ELSE StrongPrompt(cnt)

\* agent.run(prompt): a model that follows the prompt answers an
\* out-of-domain query with the guard's sentence.
ModelText(prompt, in_domain) == IF in_domain THEN "answer" ELSE prompt.guard

RunModelCaught(prompt, m, dom) ==
  [status |-> "returned",
   text |-> IF m = "ok" THEN ModelText(prompt, dom) ELSE "none"]

\* out = agent.run(prompt, ...); return _text(out), count: the call is not
\* wrapped, so its exception leaves answer()
RunModel(prompt, m, dom) ==
  IF m = "ok" THEN [status |-> "returned", text |-> ModelText(prompt, dom)]
  ELSE [status |-> "raised", text |-> "none"]

\* answer(query, user_id=..., session_id=...)
Answer(searches, domains) ==
  /\ chat.agent = "created"
  /\ \E s \in searches, m \in {"ok", "raise"}, dom \in domains :
       LET got == Retrieve(s)
           cnt == SliceLen(got.n, chat.top_k)
           prompt == Prompt(Gate(cnt, chat.min_docs), cnt)
       IN  ans' =
             IF got.propagates
               THEN [NoAnswer EXCEPT !.status = "raised", !.search = s.kind,
                                     !.matches = s.n, !.in_domain = dom]
               ELSE [status |-> RunModel(prompt, m, dom).status,
                     search |-> s.kind, matches |-> s.n, count |-> cnt,
                     prompt |-> prompt.kind, guard |-> prompt.guard,
                     web_search |-> prompt.web_search, runs |-> 1,
                     model |-> m, in_domain |-> dom,
                     text |-> RunModel(prompt, m, dom).text]
  /\ UNCHANGED chat

\* ------------------------------------------------------------- pipeline
MissingPdf == [exists |-> FALSE, n |-> 0, blank |-> {}]

NoUpload == [name |-> "None"]

SessionDefaults ==
  [initialized |-> "False", processed |-> "False", processed_file |-> "None",
   final_text |-> <<>>, final_displayed |-> "False", kb_ready |-> "False"]

\* An input PDF: n pages, of which those in blank carry no text.
Pdfs ==
  UNION {{[exists |-> TRUE, n |-> n, blank |-> b] :
            b \in {{}, {1}} \cap SUBSET (1..n)} : n \in 0..MaxPages}

\* page.get_text("text") of page j
RawPageText(doc, j) ==
  IF j \in doc.blank THEN <<" ">> ELSE <<"p", ToString(j)>>

RECURSIVE PagesFrom(_, _)
PagesFrom(doc, j) ==
  IF j > doc.n THEN <<>>
  ELSE LET page_text == Strip(RawPageText(doc, j))
       IN  IF page_text = <<>> THEN PagesFrom(doc, j + 1)
           ELSE <<page_text>> \o PagesFrom(doc, j + 1)

\* extract_text_from_pdf(pdf_path, by_page=True): the stripped texts of the
\* pages that have text
extract_text_from_pdf(doc) == PagesFrom(doc, 1)

\* What a model call may do. Without the provider key every call raises.
ExtractionOutcomes == IF keySet THEN {"text", "empty", "raise"} ELSE {"raise"}
AnalysisOutcomes == IF keySet THEN {"padded", "raise"} ELSE {"raise"}
SynthesisOutcomes == IF keySet THEN {"report", "raise"} ELSE {"raise"}

\* resp.content of document_extraction_agent.arun(prompt + page_text[:15000])
ExtractionReply(page_number, page_text, v) ==
  IF v = "text" THEN <<"x">> \o Take(page_text, PromptBudget) ELSE <<>>

\* resp.content of analyzer_agent.arun("Analyze Page n ...: page_text[:15000]")
AnalysisReply(page_number, page_text, v) ==
  IF v = "padded"
    THEN <<" ", "a", ToString(page_number)>> \o Take(page_text, PromptBudget)
           \o <<" ">>
    ELSE <<" ">>

\* resp.content of final_report_agent.arun(prompt + merged_text)
SynthesisReply(merged_text, v) ==
  IF v = "report" THEN <<" ", "r", " ">> ELSE <<" ">>

PlaceholderAbsent(page_number) == None

\* f"[Page {page_number}] Analysis failed."
Placeholder(page_number) ==
  <<"[Page ", ToString(page_number), "] Analysis failed.">>

RECURSIVE Join(_, _)
\* sep.join(parts)
Join(sep, parts) ==
  IF parts = <<>> THEN <<>>
  ELSE IF Len(parts) = 1 THEN parts[1]
  ELSE parts[1] \o sep \o Join(sep, Tail(parts))

PageBreak == <<"\n\n--- PAGE BREAK ---\n\n">>

MakeTasksOneNumber(texts) ==
  [i \in 1..Len(texts) |->
     [page_number |-> 1, page_text |-> texts[i], done |-> FALSE,
      outcome |-> "pending", result |-> None]]

\* tasks = [op(t, i + 1) for i, t in enumerate(texts)]
MakeTasks(texts) ==
  [i \in 1..Len(texts) |->
     [page_number |-> i, page_text |-> texts[i], done |-> FALSE,
      outcome |-> "pending", result |-> None]]

FirstDone(ts) == ts = <<>> \/ \E i \in 1..Len(ts) : ts[i].done

DoneOrGivenUp(ts) ==
  \A i \in 1..Len(ts) : ts[i].done \/ ts[i].outcome = "never"

\* await asyncio.gather(*tasks) resumes when every task of the batch is done
AllDone(ts) == \A i \in 1..Len(ts) : ts[i].done

GatherInCompletionOrder(ts, fin) == [i \in 1..Len(ts) |-> ts[fin[i]].result]

\* await asyncio.gather(*tasks): the results in the order of the tasks
Gather(ts, fin) == [i \in 1..Len(ts) |-> ts[i].result]

KeepAll(gathered) == gathered

TruthyPrefix(gathered) ==
  LET falsy == {j \in 1..Len(gathered) : ~Truthy(gathered[j])}
  IN  IF falsy = {} THEN gathered
      ELSE SubSeq(gathered, 1,
                  (CHOOSE j \in falsy : \A i \in falsy : j <= i) - 1)

\* [r for r in results if r]
Truthies(gathered) == SelectSeq(gathered, Truthy)

NoLocals ==
  /\ tasks' = <<>>
  /\ results' = <<>>
  /\ finished' = <<>>
  /\ pages' = <<>>
  /\ page_outputs' = <<>>
  /\ final_report_text' = None

NoSynth == [calls |-> 0, outcome |-> "none"]

KeepOutputs(out) == out

\* if any(OUTPUT_DIR.iterdir()): shutil.rmtree(OUTPUT_DIR); mkdir
\* (streamlit: unlink every entry of OUTPUT_DIR)
WipeOutputs(out) == [f \in OutputNames |-> NoFile]

\* What a run finds in the outputs directory after its clean-up is stale.
Stale(out) ==
  [f \in OutputNames |->
     IF out[f] = NoFile THEN NoFile ELSE [out[f] EXCEPT !.stale = TRUE]]

\* Number of page files a clean-up removes.
Swept(before, after) ==
  Cardinality({n \in 1..MaxPages :
                 before[PageFile(n)] # NoFile /\ after[PageFile(n)] = NoFile})

\* The clean-up at the start of a run.
RunBegin ==
  /\ outputs' = Stale(WipeOutputs(outputs))
  /\ swept' = Swept(outputs, outputs')
  /\ synth' = NoSynth

WriteNothing(out, f, text) == out

\* page_file.write_text(text)
WriteFile(out, f, text) == [out EXCEPT ![f] = [text |-> text, stale |-> FALSE]]

\* extract_page_async: one extraction task resumes from its model call
ExtractTaskDone ==
  /\ pc = "extract"
  /\ \E i \in 1..Len(tasks), v \in ExtractionOutcomes :
       /\ ~tasks[i].done
       /\ tasks[i].outcome = "pending"
       /\ tasks' =
            [tasks EXCEPT
               ![i].done = TRUE,
               ![i].outcome = v,
               ![i].result =
                 IF v = "raise" THEN None
                 ELSE ExtractionReply(tasks[i].page_number,
                                      tasks[i].page_text, v)]
       /\ finished' = Append(finished, i)
  /\ UNCHANGED <<sess, uploaded, entry, swept, pc, ended, pdf, pages,
                 page_outputs, results, final_report_text, synth, keySet,
                 outputs, pdfsDir, indexVars, chatVars, process_clicked>>

\* extract_blood_report_async returns the truthy results; run_parallel_analysis
\* launches one analysis task per page
ExtractJoin ==
  /\ pc = "extract"
  /\ AllDone(tasks)
  /\ results' = Gather(tasks, finished)
  /\ pages' = Truthies(results')
  /\ tasks' = MakeTasks(pages')
  /\ finished' = <<>>
  /\ pc' = "analyze"
  /\ UNCHANGED <<sess, uploaded, entry, swept, ended, pdf, page_outputs,
                 final_report_text, synth, keySet, outputs, pdfsDir, indexVars,
                 chatVars, process_clicked>>

\* analyze_page_async: one analysis task resumes from its model call, strips
\* the reply and writes page_<n>.txt, or returns the placeholder
AnalyzeTaskDone ==
  /\ pc = "analyze"
  /\ \E i \in 1..Len(tasks), v \in AnalysisOutcomes :
       /\ ~tasks[i].done
       /\ tasks[i].outcome = "pending"
       /\ finished' = Append(finished, i)
       /\ IF v = "raise"
            THEN /\ tasks' =
                      [tasks EXCEPT
                         ![i].done = TRUE,
                         ![i].outcome = v,
                         ![i].result = Placeholder(tasks[i].page_number)]
                 /\ UNCHANGED outputs
            ELSE LET output_text ==
                       Strip(AnalysisReply(tasks[i].page_number,
                                           tasks[i].page_text, v))
                 IN  /\ outputs' =
                          WriteFile(outputs, PageFile(tasks[i].page_number),
                                    output_text)
                     /\ tasks' =
                          [tasks EXCEPT ![i].done = TRUE,
                                        ![i].outcome = v,
                                        ![i].result = output_text]
  /\ UNCHANGED <<sess, uploaded, entry, swept, pc, ended, pdf, pages,
                 page_outputs, results, final_report_text, synth, keySet,
                 pdfsDir, indexVars, chatVars, process_clicked>>

\* run_parallel_analysis returns; generate_final_report(page_outputs) merges
\* the strings and awaits the model
AnalyzeJoin ==
  /\ pc = "analyze"
  /\ AllDone(tasks)
  /\ page_outputs' = Gather(tasks, finished)
  /\ synth' = [calls |-> synth.calls + 1, outcome |-> "pending"]
  /\ pc' = "synth"
  /\ UNCHANGED <<results, sess, uploaded, entry, swept, ended, pdf, tasks,
                 finished, pages, final_report_text, keySet, outputs, pdfsDir,
                 indexVars, chatVars, process_clicked>>

\* generate_final_report of app/main.py resumes from its model call
CliSynthDone ==
  /\ entry = "cli"
  /\ pc = "synth"
  /\ synth.outcome = "pending"
  /\ \E v \in SynthesisOutcomes :
       /\ synth' = [synth EXCEPT !.outcome = v]
       /\ IF v = "raise"
            THEN final_report_text' = None /\ UNCHANGED outputs
            ELSE LET final_text ==
                       Strip(SynthesisReply(Join(PageBreak, page_outputs), v))
                 IN  /\ outputs' =
                          WriteFile(outputs, FinalReportFile, final_text)
                     /\ final_report_text' = final_text
  /\ finished' = <<>>
  /\ pc' = "output"
  /\ UNCHANGED <<sess, uploaded, entry, swept, ended, pdf, tasks, pages,
                 page_outputs, results, keySet, pdfsDir, indexVars, chatVars,
                 process_clicked>>

\* python app/main.py: the module-level clean-up of OUTPUT_DIR, then
\* asyncio.run(run_pipeline(pdf_path)) up to the launch of the extraction
\* tasks; a missing PDF raises FileNotFoundError, which __main__ catches
CliStart ==
  /\ entry = "cli"
  /\ pc = "idle"
  /\ RunBegin
  /\ lancedb' = Forgotten(lancedb)
  /\ chat' = NoAgent
  /\ ans' = NoAnswer
  /\ asked' = 0
  /\ results' = <<>>
  /\ pages' = <<>>
  /\ page_outputs' = <<>>
  /\ final_report_text' = None
  /\ finished' = <<>>
  /\ \E doc \in Pdfs \cup {MissingPdf} :
       /\ pdf' = doc
       /\ IF ~doc.exists
            THEN /\ pc' = "caught"
                 /\ ended' = "FileNotFoundError"
                 /\ tasks' = <<>>
            ELSE /\ pc' = "extract"
                 /\ ended' = "running"
                 /\ tasks' = MakeTasks(extract_text_from_pdf(doc))
  /\ UNCHANGED <<sess, uploaded, entry, keySet, pdfsDir, ipc, recreate,
                 pdf_txt_files, output_txt_files, ingested, count, iresult,
                 prior, process_clicked>>

\* __main__ after asyncio.run: create_vectordb_from_pdfs_and_outputs()
CliIndexBegin ==
  /\ entry = "cli"
  /\ pc \in {"output", "caught"}
  /\ CreateBegin(TRUE)
  /\ NoLocals
  /\ pc' = "index"
  /\ UNCHANGED <<synth, sess, uploaded, entry, swept, ended, pdf, keySet,
                 chatVars, process_clicked>>

AppTopK == 5
AppMinDocs == 1
NumQueries == 4

\* __main__ after the index build: always_clear_memory(db_path) and
\* chat_agent(top_k=5, min_docs_for_confident_answer=1, ...); an exception of
\* the build or of chat_agent ends the process
CliIndexDone ==
  /\ entry = "cli"
  /\ pc = "index"
  /\ ipc = "idle"
  /\ iresult # "none"
  /\ IF iresult = "returned"
       THEN /\ ChatAgentCreate(AppTopK, AppMinDocs)
            /\ IF keySet THEN pc' = "chat" /\ UNCHANGED ended
               ELSE pc' = "idle" /\ ended' = "RuntimeError"
       ELSE /\ pc' = "idle"
            /\ ended' = iresult
            /\ UNCHANGED chatVars
  /\ IndexCallOver
  /\ UNCHANGED <<sess, uploaded, entry, swept, pdf, tasks, finished, pages,
                 page_outputs, results, final_report_text, synth, keySet,
                 outputs, pdfsDir, lancedb, process_clicked>>

\* What the store answers the searches of the two applications with.
AppSearches ==
  {[kind |-> "Exception", n |-> 0], [kind |-> "list", n |-> MaxMatches]}

\* for q in queries: agent.answer(q, ...); an exception ends the process
CliQuery ==
  /\ entry = "cli"
  /\ pc = "chat"
  /\ asked < NumQueries
  /\ asked' = asked + 1
  /\ Answer(AppSearches, {TRUE})
  /\ IF ans'.status = "raised"
       THEN pc' = "idle" /\ ended' = "ModelError"
       ELSE IF asked' = NumQueries
         THEN pc' = "idle" /\ ended' = "ok"
         ELSE UNCHANGED <<pc, ended>>
  /\ UNCHANGED <<sess, uploaded, entry, swept, pdf, tasks, finished, pages,
                 page_outputs, results, final_report_text, synth, keySet,
                 outputs, pdfsDir, indexVars, process_clicked>>

\* ------------------------------------------------------------- streamlit
UploadNames == {"a.pdf", "b.pdf"}

Uploads == {[name |-> nm] : nm \in UploadNames}

\* Python values of the session flags: "True", "False" and "None".
\* st.session_state after a Reset click
ResetKeys(s) ==
  [s EXCEPT !.processed = "False", !.processed_file = "None",
            !.final_text = None, !.kb_ready = "None",
            !.final_displayed = "None"]

\* if uploaded is not None and processed_file != uploaded.name: ...
SyncUpload(s, up) ==
  IF up.name # "None" /\ s.processed_file # up.name
    THEN [s EXCEPT !.processed = "False", !.processed_file = up.name,
                   !.final_displayed = "False"]
    ELSE s

\* Final Summary: the report is streamed once and final_displayed set
ShowFinal(s) ==
  IF Truthy(s.final_text) THEN [s EXCEPT !.final_displayed = "True"] ELSE s

\* The script from "Final Summary" to its end: the summary, the page links
\* and, if kb_ready, the chat section, which builds chat_agent_obj once.
ScriptTail(s, key) ==
  /\ sess' = ShowFinal(s)
  /\ IF s.kb_ready = "True" /\ chat.agent = "none"
       THEN /\ chat' = ChatAgentBuild(key, AppTopK, AppMinDocs)
            /\ ended' = IF key THEN "ok" ELSE "RuntimeError"
       ELSE /\ UNCHANGED chat
            /\ ended' = "ok"

\* The script below the sidebar in a rerun that does not start the pipeline.
ScriptBody(s, up, key, clicked) ==
  IF s.initialized # "True"
    THEN sess' = s /\ ended' = "stopped" /\ UNCHANGED chat
    ELSE LET s0 == SyncUpload(s, up)
         IN  IF up.name # "None" /\ (clicked \/ s0.processed = "True")
               THEN ScriptTail(s0, key)
               ELSE sess' = s0 /\ ended' = "ok" /\ UNCHANGED chat

StIdle == entry = "st" /\ pc = "idle"

\* Sidebar: Initialize
StInitialize ==
  /\ StIdle
  /\ process_clicked' = FALSE
  /\ \E openai_key \in BOOLEAN :
       /\ keySet' = (keySet \/ openai_key)
       /\ ScriptBody([sess EXCEPT !.initialized = "True"], uploaded, keySet',
                     FALSE)
  /\ ans' = NoAnswer
  /\ UNCHANGED <<entry, swept, pc, pdf, tasks, finished, pages, page_outputs,
                 results, final_report_text, synth, uploaded, outputs, pdfsDir,
                 indexVars, asked>>

\* Sidebar: Reset, then st.experimental_rerun()
StReset ==
  /\ StIdle
  /\ process_clicked' = FALSE
  /\ ScriptBody(ResetKeys(sess), uploaded, keySet, FALSE)
  /\ ans' = NoAnswer
  /\ UNCHANGED <<entry, swept, pc, pdf, tasks, finished, pages, page_outputs,
                 results, final_report_text, synth, uploaded, keySet, outputs,
                 pdfsDir, indexVars, asked>>

\* The user puts a file into the uploader, or takes it out
StUpload ==
  /\ StIdle
  /\ process_clicked' = FALSE
  /\ sess.initialized = "True"
  /\ \E up \in Uploads \cup {NoUpload} :
       /\ up # uploaded
       /\ uploaded' = up
       /\ ScriptBody(sess, up, keySet, FALSE)
  /\ ans' = NoAnswer
  /\ UNCHANGED <<entry, swept, pc, pdf, tasks, finished, pages, page_outputs,
                 results, final_report_text, synth, keySet, outputs, pdfsDir,
                 indexVars, asked>>

StartsPipelineOnAnyClick(s, up) == up.name # "None"

\* if process_clicked and not st.session_state["processed"]
StartsPipeline(s, up) == up.name # "None" /\ s.processed # "True"

\* "Process report" clicked: with a file that is not processed yet the old
\* outputs are cleared, the upload is saved and the page extraction tasks
\* are launched; otherwise the script only displays
StProcess ==
  /\ StIdle
  /\ process_clicked' = TRUE
  /\ sess.initialized = "True"
  /\ ans' = NoAnswer
  /\ LET s0 == SyncUpload(sess, uploaded)
     IN  IF StartsPipeline(s0, uploaded)
           THEN /\ RunBegin
                /\ lancedb' = Forgotten(lancedb)
                /\ sess' = s0
                /\ \E doc \in Pdfs :
                     /\ pdf' = doc
                     /\ tasks' = MakeTasks(extract_text_from_pdf(doc))
                /\ finished' = <<>>
                /\ results' = <<>>
                /\ pages' = <<>>
                /\ page_outputs' = <<>>
                /\ final_report_text' = None
                /\ pc' = "extract"
                /\ ended' = "running"
                /\ UNCHANGED chat
           ELSE /\ ScriptBody(sess, uploaded, keySet, TRUE)
                /\ UNCHANGED <<swept, outputs, lancedb, pdf, tasks, finished,
                               pages, page_outputs, results, final_report_text,
                               synth, pc>>
  /\ UNCHANGED <<entry, uploaded, keySet, pdfsDir, ipc, recreate,
                 pdf_txt_files, output_txt_files, ingested, count, iresult,
                 prior, asked>>

\* generate_final_report of streamlit_app.py resumes from its model call; an
\* exception is not caught and ends the script run. Otherwise the report is
\* written, the session is updated and create_vectordb... is called with
\* recreate=True
StSynthDone ==
  /\ entry = "st"
  /\ pc = "synth"
  /\ synth.outcome = "pending"
  /\ \E v \in SynthesisOutcomes :
      /\ synth' = [synth EXCEPT !.outcome = v]
      /\ IF v = "raise"
         THEN /\ pc' = "idle"
              /\ ended' = "SynthesisError"
              /\ UNCHANGED <<outputs, pdfsDir, sess, indexVars>>
         ELSE LET final_text ==
                    Strip(SynthesisReply(Join(PageBreak, page_outputs), v))
              IN  /\ PrepareTxtDirs(TRUE, WriteFile(outputs, FinalReportFile,
                                                   final_text))
                  /\ sess' = [sess EXCEPT !.final_text = final_text,
                                          !.processed = "True",
                                          !.final_displayed = "False"]
                  /\ lancedb' = PrepareIndexDir(TRUE, Aged(lancedb))
                  /\ CreateCollect(TRUE, outputs')
                  /\ pc' = "index"
                  /\ UNCHANGED ended
  /\ NoLocals
  /\ UNCHANGED <<entry, swept, pdf, uploaded, keySet, chatVars,
                 process_clicked>>

\* create_vectordb... has returned or raised: kb_ready is set and the rest of
\* the script runs, or the exception ends the script run
StIndexDone ==
  /\ entry = "st"
  /\ pc = "index"
  /\ ipc = "idle"
  /\ iresult # "none"
  /\ IF iresult = "returned"
       THEN ScriptTail([sess EXCEPT !.kb_ready = "True"], keySet)
       ELSE ended' = iresult /\ UNCHANGED <<sess, chat>>
  /\ pc' = "idle"
  /\ IndexCallOver
  /\ UNCHANGED <<entry, swept, pdf, tasks, finished, pages, page_outputs,
                 results, final_report_text, synth, uploaded, keySet, outputs,
                 pdfsDir, lancedb, ans, asked, process_clicked>>

\* The chat section is on the page: the last script run reached it
ChatOffered ==
  /\ ended \in {"ok", "ModelError"}
  /\ sess.initialized = "True"
  /\ uploaded.name # "None"
  /\ sess.processed = "True"
  /\ sess.kb_ready = "True"
  /\ chat.agent = "created"

\* A message typed into st.chat_input: the script reruns and calls ag.answer
StChat ==
  /\ StIdle
  /\ process_clicked' = FALSE
  /\ ChatOffered
  /\ Answer(AppSearches, BOOLEAN)
  /\ sess' = ShowFinal(sess)
  /\ ended' = IF ans'.status = "raised" THEN "ModelError" ELSE "ok"
  /\ UNCHANGED <<entry, swept, pc, pdf, tasks, finished, pages, page_outputs,
                 results, final_report_text, synth, uploaded, keySet, outputs,
                 pdfsDir, indexVars, asked>>

InitPipeVars ==
  /\ swept = 0
  /\ pc = "idle"
  /\ ended = "none"
  /\ pdf = MissingPdf
  /\ synth = NoSynth
  /\ sess = SessionDefaults
  /\ uploaded = NoUpload
  /\ process_clicked = FALSE
  /\ tasks = <<>>
  /\ finished = <<>>
  /\ results = <<>>
  /\ pages = <<>>
  /\ page_outputs = <<>>
  /\ final_report_text = None

\* ------------------------------------------------------------- SpecIndex
InitIndexVars ==
  /\ ipc = "idle"
  /\ recreate = FALSE
  /\ pdf_txt_files = {}
  /\ output_txt_files = {}
  /\ ingested = {}
  /\ count = 0
  /\ iresult = "none"
  /\ prior = NoIndexDir

InitIndex ==
  /\ InitPipeVars
  /\ entry = "cli"
  /\ keySet \in BOOLEAN
  /\ pdfsDir \in SUBSET PdfsEntries
  /\ \E present \in SUBSET OutputNames :
       outputs = [f \in OutputNames |->
                    IF f \in present THEN [text |-> <<"t">>, stale |-> FALSE]
                    ELSE NoFile]
  /\ lancedb \in {NoIndexDir, EmptyIndexDir, OldIndexDir}
  /\ InitIndexVars
  /\ InitChatVars

CallCreate ==
  /\ \E flag \in BOOLEAN : CreateBegin(flag)
  /\ UNCHANGED <<pipeVars, keySet, chatVars>>

IndexStep ==
  /\ (AddContent \/ CreateReturn)
  /\ UNCHANGED <<pipeVars, keySet, outputs, pdfsDir, chatVars>>

NextIndex == CallCreate \/ IndexStep

SpecIndex == InitIndex /\ [][NextIndex]_vars

\* ------------------------------------------------------------- SpecChat
InitChat ==
  /\ InitPipeVars
  /\ entry = "cli"
  /\ keySet \in BOOLEAN
  /\ pdfsDir = {}
  /\ outputs = [f \in OutputNames |-> NoFile]
  /\ lancedb = EmptyIndexDir
  /\ InitIndexVars
  /\ InitChatVars

CallChatAgent ==
  /\ \E k \in 0..MaxTopK, m \in 0..MaxMinDocs : ChatAgentCreate(k, m)
  /\ UNCHANGED <<pipeVars, keySet, outputs, pdfsDir, indexVars>>

CallAnswer ==
  /\ asked < MaxQueries
  /\ asked' = asked + 1
  /\ Answer(SearchOutcomes, BOOLEAN)
  /\ UNCHANGED <<pipeVars, keySet, outputs, pdfsDir, indexVars>>

NextChat == CallChatAgent \/ CallAnswer

SpecChat == InitChat /\ [][NextChat]_vars

\* ------------------------------------------------------------- Spec
Init ==
  /\ InitPipeVars
  /\ entry \in {"cli", "st"}
  /\ keySet \in BOOLEAN
  /\ pdfsDir \in {{}, {ReferenceTxt}}
  /\ outputs = [f \in OutputNames |-> NoFile]
  /\ lancedb = IF entry = "cli" THEN NoIndexDir ELSE EmptyIndexDir
  /\ InitIndexVars
  /\ InitChatVars

IndexRun ==
  /\ pc = "index"
  /\ (AddContent \/ CreateReturn)
  /\ UNCHANGED <<pipeVars, keySet, outputs, pdfsDir, chatVars>>

Next ==
  \/ CliStart
  \/ ExtractTaskDone
  \/ ExtractJoin
  \/ AnalyzeTaskDone
  \/ AnalyzeJoin
  \/ CliSynthDone
  \/ CliIndexBegin
  \/ IndexRun
  \/ CliIndexDone
  \/ CliQuery
  \/ StInitialize
  \/ StReset
  \/ StUpload
  \/ StProcess
  \/ StSynthDone
  \/ StIndexDone
  \/ StChat

Spec == Init /\ [][Next]_vars

\* ------------------------------------------------------------- SpecPipeline
\* run_pipeline of app/main.py alone, with model calls that may never return.
\* A task suspended in "await agent.arun(...)" stays suspended for as long as
\* the call does not return: nothing in the program cancels it
\* (PARALLEL_TIMEOUT is assigned and never read).
ModelCallStalls ==
  /\ \/ /\ pc \in {"extract", "analyze"}
        /\ \E i \in 1..Len(tasks) :
             /\ tasks[i].outcome = "pending"
             /\ tasks' = [tasks EXCEPT ![i].outcome = "never"]
        /\ UNCHANGED synth
     \/ /\ pc = "synth"
        /\ synth.outcome = "pending"
        /\ synth' = [synth EXCEPT !.outcome = "never"]
        /\ UNCHANGED tasks
  /\ UNCHANGED <<entry, swept, pc, ended, pdf, finished, results, pages,
                 page_outputs, final_report_text, sess, uploaded, keySet,
                 outputs, pdfsDir, indexVars, chatVars, process_clicked>>

InitPipeline == Init /\ entry = "cli"

NextPipeline ==
  \/ CliStart
  \/ ExtractTaskDone
  \/ ExtractJoin
  \/ AnalyzeTaskDone
  \/ AnalyzeJoin
  \/ CliSynthDone
  \/ ModelCallStalls

\* The event loop resumes a task whose model call has returned, and gather
\* resumes its caller once every task is done.
SpecPipeline ==
  /\ InitPipeline
  /\ [][NextPipeline]_vars
  /\ WF_vars(ExtractTaskDone)
  /\ WF_vars(ExtractJoin)
  /\ WF_vars(AnalyzeTaskDone)
  /\ WF_vars(AnalyzeJoin)
  /\ WF_vars(CliSynthDone)

\* ------------------------------------------------------------- claims
\* C1: run_parallel_analysis(pages) returns exactly one result per input
\* page and result i belongs to page i whatever the order in which the tasks
\* finished: the stripped analysis of page i if its task succeeded, the
\* failure placeholder of page i if it failed.
C1_ResultsInInputOrder ==
  pc \in {"synth", "output"} =>
    /\ Len(page_outputs) = Len(pages)
    /\ \A i \in 1..Len(pages) :
         /\ tasks[i].page_number = i
         /\ tasks[i].page_text = pages[i]
         /\ page_outputs[i] =
              IF tasks[i].outcome = "raise"
                THEN <<"[Page ", ToString(i), "] Analysis failed.">>
                ELSE Strip(AnalysisReply(i, pages[i], tasks[i].outcome))

\* C1 witness: two pages, the task of page 2 succeeded first and the task of
\* page 1 failed afterwards, and the results are back.
C1_Witness ==
  /\ pc = "synth"
  /\ Len(pages) = 2
  /\ finished = <<2, 1>>
  /\ tasks[1].outcome = "raise"
  /\ tasks[2].outcome = "padded"
  /\ Len(page_outputs) = 2
  /\ page_outputs[1] # page_outputs[2]

Answered == ans.status # "none"

\* C2 as stated: zero matches select the weak-context prompt, a match count
\* at or above the threshold selects the strong-context prompt, and exactly
\* one prompt is run per query.
C2_AsStated ==
  Answered =>
    /\ ans.count = 0 => ans.prompt = "weak"
    /\ ans.count >= chat.min_docs => ans.prompt = "strong"
    /\ ans.runs = 1

\* C2 amended: a match count below the threshold (zero matches whenever the
\* threshold is at least 1) selects the weak-context prompt and a match count
\* at or above the threshold, the boundary included, selects the
\* strong-context prompt; exactly one prompt is run per query.
C2_GateByThreshold ==
  Answered =>
    /\ ans.count < chat.min_docs => ans.prompt = "weak"
    /\ (ans.count = 0 /\ chat.min_docs >= 1) => ans.prompt = "weak"
    /\ ans.count >= chat.min_docs => ans.prompt = "strong"
    /\ ans.runs = 1

\* C2 witness: an answer was returned for a positive match count equal to
\* the threshold, on the strong-context prompt.
C2_Witness ==
  /\ ans.status = "returned"
  /\ ans.count >= 1
  /\ ans.count = chat.min_docs
  /\ ans.prompt = "strong"

SearchFailed ==
  /\ Answered
  /\ \/ ans.search \in {"IndexError", "Exception", "None"}
     \/ ans.search = "list" /\ ans.matches = 0

\* C3 as stated: after a search that raised or returned nothing, for every
\* top_k and threshold, answer() raises only if the model call raised, counts
\* zero matches and takes the weak-context prompt.
C3_AsStated ==
  SearchFailed =>
    /\ ans.status = "raised" <=> ans.model = "raise"
    /\ ans.count = 0
    /\ ans.prompt = "weak"

\* C3 amended: after a search that raised or returned nothing answer() raises
\* only if the model call raised and counts zero matches, for every top_k;
\* it takes the weak-context prompt for every threshold of at least 1 and
\* the strong-context prompt for a threshold of 0.
C3_SearchFailureIsZeroMatches ==
  SearchFailed =>
    /\ ans.status = "raised" <=> ans.model = "raise"
    /\ ans.runs = 1
    /\ ans.count = 0
    /\ ans.prompt = IF chat.min_docs >= 1 THEN "weak" ELSE "strong"

\* C3 witness: the search raised an exception other than IndexError with a
\* positive top_k and threshold, and answer() returned 0 on the weak prompt.
C3_Witness ==
  /\ ans.status = "returned"
  /\ ans.search = "Exception"
  /\ chat.top_k >= 1
  /\ chat.min_docs >= 1
  /\ ans.count = 0
  /\ ans.prompt = "weak"

\* C4: no file of the outputs directory is older than the current run, and
\* no page_<k>.txt exists for a k above the page count of the current run's
\* document.
C4_NoStaleOutputs ==
  /\ \A f \in OutputNames : ~outputs[f].stale
  /\ \A k \in 1..MaxPages :
       k > Len(extract_text_from_pdf(pdf)) => outputs[PageFile(k)] = NoFile

\* C4 witness: a run whose clean-up removed two page files has ended with
\* page_1.txt written and no page_2.txt.
C4_Witness ==
  /\ swept = 2
  /\ pc = "idle"
  /\ ended = "ok"
  /\ outputs[PageFile(1)] # NoFile
  /\ outputs[PageFile(2)] = NoFile

\* C5: in a run of app/main.py on an existing document a page failure never
\* ends the run: generate_final_report is called exactly once after the
\* analysis, with one string per page, the failed positions holding their
\* literal placeholder; and when its model call succeeds the merged report
\* is returned and is the content of final_report.txt.
C5_PageFailuresNeverAbort ==
  (entry = "cli" /\ pdf.exists) =>
    /\ synth.calls = IF pc \in {"extract", "analyze"} THEN 0 ELSE 1
    /\ pc \in {"extract", "analyze", "synth", "output"} => ended = "running"
    /\ pc \in {"synth", "output"} =>
         /\ Len(page_outputs) = Len(pages)
         /\ \A i \in 1..Len(pages) :
              tasks[i].outcome = "raise" =>
                page_outputs[i] =
                  <<"[Page ", ToString(i), "] Analysis failed.">>
    /\ (pc = "output" /\ synth.outcome = "report") =>
         /\ final_report_text # None
         /\ final_report_text =
              Strip(SynthesisReply(Join(PageBreak, page_outputs), "report"))
         /\ outputs[FinalReportFile] =
              [text |-> final_report_text, stale |-> FALSE]

\* C5 witness: both pages of a two-page document failed in analysis and the
\* report was still synthesised and written.
C5_Witness ==
  /\ entry = "cli"
  /\ pc = "output"
  /\ Len(pages) = 2
  /\ \A i \in 1..2 : tasks[i].outcome = "raise"
  /\ synth = [calls |-> 1, outcome |-> "report"]
  /\ outputs[FinalReportFile] # NoFile
  /\ outputs[FinalReportFile].text = final_report_text

\* C6 as stated: after the final-report model call raised, on either entry
\* path, report generation has returned, not raised, no final_report.txt was
\* written and the page files of the run are still there.
C6_AsStated ==
  synth.outcome = "raise" =>
    /\ ended # "SynthesisError"
    /\ outputs[FinalReportFile] = NoFile
    /\ \A f \in OutputNames : ~outputs[f].stale

\* Entries the current call has put into the index.
EntriesOfCall == {e \in lancedb.entries : ~e.old}

TxtPathsPresent == PdfTxtFiles(pdfsDir) \cup OutputTxtFiles(outputs)

\* C7: with recreate=true the pre-existing index directory is removed before
\* the first add_content call, so from the first ingestion on, and after a
\* successful return, the index holds only entries ingested by this call;
\* with recreate=false the entries the call found are all still there.
C7_RecreateRemovesPriorIndex ==
  iresult # "none" =>
     /\ lancedb.exists
     /\ recreate => lancedb.entries = EntriesOfCall
     /\ ~recreate => Aged(prior).entries \subseteq lancedb.entries

\* C7 witness: a recreate=true call that found an index with entries has
\* returned after ingesting files of its own.
C7_Witness ==
  /\ recreate
  /\ iresult = "returned"
  /\ prior.entries # {}
  /\ lancedb.entries # {}
  /\ lancedb.entries = EntriesOfCall

\* C8: with no .txt file in the pdfs directory and none in the outputs
\* directory the call raises FileNotFoundError without any add_content call
\* and returns nothing; with at least one .txt file in either directory it
\* never raises that error, ingests only .txt files of the two directories,
\* makes exactly one add_content call per ingested file (count counts the
\* calls), and on its return every one of them has been ingested.
C8_NoTxtFilesIsAnError ==
  iresult # "none" =>
    IF TxtPathsPresent = {}
      THEN iresult = "FileNotFoundError" /\ count = 0 /\ EntriesOfCall = {}
      ELSE /\ iresult # "FileNotFoundError"
           /\ {e.path : e \in EntriesOfCall} \subseteq TxtPathsPresent
           /\ count = Cardinality({e.path : e \in EntriesOfCall})
           /\ iresult = "returned" =>
                {e.path : e \in EntriesOfCall} = TxtPathsPresent

\* C8 witness: a call has returned after ingesting text files of both
\* directories while the pdfs directory also holds entries that are no text
\* files.
C8_Witness ==
  /\ iresult = "returned"
  /\ pdf_txt_files # {}
  /\ Cardinality(output_txt_files) >= 2
  /\ FolderTxt \in pdfsDir
  /\ ScanPdf \in pdfsDir

\* C9 as stated: after extract_blood_report_async raised FileNotFoundError
\* for a missing document nothing was written and no later phase of
\* app/main.py (analysis, synthesis, index rebuild, chat queries) runs.
C9_AsStated ==
  (entry = "cli" /\ ~pdf.exists) =>
    /\ pc \in {"idle", "caught"}
    /\ pc = "caught" =>
         /\ ended = "FileNotFoundError"
         /\ \A f \in OutputNames : outputs[f] = NoFile

\* C10 as stated: without the provider key no phase (extraction, analysis,
\* synthesis, indexing) runs, and chat_agent raises RuntimeError before it
\* creates the history database, the vector-store client or the agent.
C10_AsStated ==
  ~keySet =>
    /\ pc \notin {"extract", "analyze", "synth", "output", "index"}
    /\ chat.agent = "none" /\ ~chat.db /\ ~chat.knowledge

\* Number of gathered extraction results that are truthy.
TruthyCount == Cardinality({j \in 1..Len(results) : Truthy(results[j])})

\* C11 as stated: the number of page analysis results handed to the
\* synthesizer equals the number of non-empty pages the text extractor
\* returned, whatever the page extraction calls did.
C11_AsStated ==
  pc \in {"synth", "output"} =>
    Len(page_outputs) = Len(extract_text_from_pdf(pdf))

\* C11 amended: one extraction result is gathered per non-empty page of the
\* document, and the number of page analysis results handed to the
\* synthesizer equals the number of those results that are truthy (the
\* extraction call neither failed nor returned empty content); it equals the
\* extractor's page count exactly when every extraction result is truthy.
C11_ResultsPerTruthyExtraction ==
  pc \in {"synth", "output"} =>
    /\ Len(results) = Len(extract_text_from_pdf(pdf))
    /\ Len(page_outputs) = TruthyCount
    /\ Len(page_outputs) = Len(extract_text_from_pdf(pdf))
         <=> \A j \in 1..Len(results) :
               results[j] # None /\ results[j] # <<>>

\* C11 witness: of the two pages the extractor returned one extraction
\* failed, and one analysis result is handed to the synthesizer.
C11_Witness ==
  /\ pc = "synth"
  /\ Len(extract_text_from_pdf(pdf)) = 2
  /\ results[1] = None
  /\ Len(page_outputs) = 1

\* C12: for a top_k of 0 or more, the count answer() returns next to the text
\* is the count the gate compared with the threshold, and it is the smaller
\* of the number of matches the store returned and top_k: never above top_k,
\* and 0 when the store returned nothing.
C12_CountIsMatchesCutAtTopK ==
  ans.status = "returned" =>
    /\ ans.count = IF ans.matches < chat.top_k THEN ans.matches
                   ELSE chat.top_k
    /\ ans.count <= chat.top_k
    /\ ans.search # "list" => ans.count = 0
    /\ ans.prompt = "weak" <=> ans.count < chat.min_docs

\* C12 witness: the store returned more matches than top_k and answer()
\* returned top_k as the count.
C12_Witness ==
  /\ ans.status = "returned"
  /\ ans.search = "list"
  /\ chat.top_k >= 1
  /\ ans.matches > chat.top_k
  /\ ans.count = chat.top_k

\* C13: when the model call of answer() raises, on the weak-context or the
\* strong-context prompt, answer() ends with that exception after running
\* the one prompt and returns no text; it returns a pair only when the model
\* call returned.
C13_ModelExceptionPropagates ==
  Answered =>
    /\ ans.model = "raise" =>
         /\ ans.status = "raised"
         /\ ans.text = "none"
         /\ ans.runs = 1
         /\ ans.prompt \in {"weak", "strong"}
    /\ ans.status = "returned" => ans.model = "ok"

\* C13 witness: the model call raised on the strong-context prompt, after a
\* search that returned matches, and answer() raised.
C13_Witness ==
  /\ ans.status = "raised"
  /\ ans.model = "raise"
  /\ ans.prompt = "strong"
  /\ ans.count >= 1

\* C14: whichever prompt the gate selects, for any match count, the prompt
\* that is run carries the out-of-domain guard with the one fixed refusal
\* sentence, so a model that follows the guard answers a query it judges
\* out-of-domain with exactly that sentence, which answer() returns
\* unchanged.
C14_BothPromptsCarryTheGuard ==
  (Answered /\ ans.runs = 1) =>
    /\ ans.guard =
         "Sorry, I can only help with lab reports and medical test interpretation."
    /\ (ans.status = "returned" /\ ~ans.in_domain) =>
         ans.text =
           "Sorry, I can only help with lab reports and medical test interpretation."

\* C14 witness: an out-of-domain query was answered on the weak-context
\* prompt, with no match, by the refusal sentence.
C14_Witness ==
  /\ ans.status = "returned"
  /\ ~ans.in_domain
  /\ ans.prompt = "weak"
  /\ ans.count = 0
  /\ ans.text = ans.guard
  /\ ans.guard # "none"

\* Position among the truthy results of the gathered extraction result j.
NewPageNumber(j) == Cardinality({i \in 1..j : Truthy(results[i])})

\* C15: the pages extract_blood_report_async returns are the truthy gathered
\* results in their order, N minus the failed or empty ones; the result of
\* original page j is analysed as page NewPageNumber(j), which is below j as
\* soon as an earlier extraction failed or was empty, and it is under that
\* number that it is stored as page_<n>.txt or named in its placeholder.
C15_FilterRenumbersPages ==
  pc \in {"analyze", "synth", "output"} =>
    /\ Len(pages) =
         Len(results)
           - Cardinality({j \in 1..Len(results) :
                            results[j] = None \/ results[j] = <<>>})
    /\ \A j \in 1..Len(results) :
         (results[j] # None /\ results[j] # <<>>) =>
           LET n == NewPageNumber(j)
           IN  /\ n >= 1 /\ n <= j
               /\ (\E i \in 1..(j - 1) :
                     results[i] = None \/ results[i] = <<>>) => n < j
               /\ pages[n] = results[j]
               /\ tasks[n].page_number = n
               /\ tasks[n].page_text = results[j]
               /\ pc \in {"synth", "output"} =>
                    /\ tasks[n].done
                    /\ IF tasks[n].outcome = "raise"
                         THEN page_outputs[n] =
                                <<"[Page ", ToString(n), "] Analysis failed.">>
                         ELSE outputs[[stem |-> "page", n |-> n,
                                       ext |-> "txt"]].text =
                                Strip(AnalysisReply(n, results[j], "padded"))

\* C15 witness: the extraction of page 1 failed, and the extraction result of
\* page 2 was analysed and stored as page_1.txt.
C15_Witness ==
  /\ pc = "synth"
  /\ Len(results) = 2
  /\ results[1] = None
  /\ results[2] = ExtractionReply(2, <<"p", "2">>, "text")
  /\ tasks[1].outcome = "padded"
  /\ outputs[PageFile(1)].text = Strip(AnalysisReply(1, results[2], "padded"))
  /\ outputs[PageFile(2)] = NoFile

C17_OneFilePerTask ==
  [][/\ pc' \in {"analyze", "synth", "output"} =>
          \A i \in 1..Len(tasks') :
            /\ tasks'[i].page_number = i
            /\ \A k \in 1..Len(tasks') :
                 tasks'[k].page_number = tasks'[i].page_number => k = i
            /\ (tasks'[i].done /\ tasks'[i].outcome # "raise") =>
                 outputs'[[stem |-> "page", n |-> i, ext |-> "txt"]].text =
                   Strip(AnalysisReply(i, pages'[i], "padded"))
     /\ (pc = "analyze" /\ pc' = "analyze") =>
          \A f \in OutputNames :
            outputs'[f] # outputs[f] =>
              \E i \in 1..Len(tasks) :
                /\ f = [stem |-> "page", n |-> i, ext |-> "txt"]
                /\ ~tasks[i].done
                /\ tasks'[i].done
                /\ \A k \in 1..Len(tasks) : k # i => tasks'[k] = tasks[k]
    ]_vars

\* C17 witness: the two analysis tasks of a batch completed in reverse order,
\* both without an exception, and each page file holds its own page's text.
C17_Witness ==
  /\ pc = "synth"
  /\ Len(tasks) = 2
  /\ finished = <<2, 1>>
  /\ \A i \in 1..2 :
       /\ tasks[i].outcome = "padded"
       /\ outputs[PageFile(i)].text = page_outputs[i]
  /\ outputs[PageFile(1)].text # outputs[PageFile(2)].text

\* A model call of the run never returns.
Stalled ==
  \/ \E i \in 1..Len(tasks) : tasks[i].outcome = "never"
  \/ synth.outcome = "never"

\* C18: a run_pipeline call in which no model call stalls leaves its
\* extraction, analysis and synthesis phases; once the model call of a page
\* task never returns the task is never completed or cancelled, the batch
\* never returns (the phase never changes) and generate_final_report is
\* never called.
C18_NoTimeoutOnBatch ==
  /\ (pc \in {"extract", "analyze", "synth"})
       ~> (pc = "output" \/ Stalled)
  /\ []((\E i \in 1..Len(tasks) : tasks[i].outcome = "never") =>
          /\ pc \in {"extract", "analyze"}
          /\ synth.calls = 0)
  /\ [][\A i \in 1..Len(tasks) :
          tasks[i].outcome = "never" =>
            /\ pc' = pc
            /\ Len(tasks') = Len(tasks)
            /\ tasks'[i] = tasks[i]
            /\ ~tasks'[i].done]_vars

\* C18 witness: in the analysis phase one page task is done and its file
\* written while the model call of the other never returns.
C18_Witness ==
  /\ pc = "analyze"
  /\ Len(tasks) = 2
  /\ tasks[1].outcome = "never"
  /\ tasks[2].outcome = "padded"
  /\ outputs[PageFile(2)] # NoFile
  /\ synth.calls = 0

\* C19: once the analysis batch has returned, page_<n>.txt exists exactly for
\* the pages whose analysis task completed without an exception, and holds
\* the text that task returned; a failed page has its placeholder in the
\* results and no file, and no page file holds a placeholder.
C19_PageFileIffSuccess ==
  pc \in {"synth", "output"} =>
    /\ \A n \in 1..Len(pages) :
         LET file == outputs[[stem |-> "page", n |-> n, ext |-> "txt"]]
         IN  IF tasks[n].outcome = "raise"
               THEN /\ file = NoFile
                    /\ page_outputs[n] =
                         <<"[Page ", ToString(n), "] Analysis failed.">>
               ELSE /\ file # NoFile
                    /\ file.text = page_outputs[n]
                    /\ file.text = tasks[n].result
    /\ \A n \in 1..MaxPages :
         /\ n > Len(pages) =>
              outputs[[stem |-> "page", n |-> n, ext |-> "txt"]] = NoFile
         /\ outputs[[stem |-> "page", n |-> n, ext |-> "txt"]].text
              # <<"[Page ", ToString(n), "] Analysis failed.">>

\* C19 witness: of two analysed pages page 1 failed and page 2 succeeded;
\* only page_2.txt exists and it holds the returned text.
C19_Witness ==
  /\ pc = "synth"
  /\ Len(pages) = 2
  /\ tasks[1].outcome = "raise"
  /\ tasks[2].outcome = "padded"
  /\ outputs[PageFile(1)] = NoFile
  /\ outputs[PageFile(2)] # NoFile
  /\ outputs[PageFile(2)].text = page_outputs[2]
  /\ page_outputs[1] = Placeholder(1)

\* The index holds exactly the text files that are now in the two source
\* directories, all ingested by the last build.
IndexRebuilt ==
  /\ lancedb.exists
  /\ \A e \in lancedb.entries : ~e.old
  /\ {e.path : e \in lancedb.entries} = TxtPathsPresent

\* C20 as stated: whenever the Streamlit page offers the chat section, the
\* index was completely rebuilt from the outputs of the file now processed.
C20_AsStated ==
  (entry = "st" /\ ChatOffered) => IndexRebuilt

\* The call has failed: no .txt file to ingest, or an add_content call raised.
CreateFailed == iresult \in {"FileNotFoundError", "AddContentError"}

\* Entries for the files the loops of the current call have passed.
IngestedEntries ==
  {[source |-> SourceOf(path), path |-> path, old |-> FALSE] :
     path \in ingested}

\* C21: when create_vectordb_from_pdfs_and_outputs fails with recreate=true
\* (FileNotFoundError, or an exception from add_content on the k-th file) the
\* index is not restored: the directory exists, none of the entries the call
\* found is in it, the files ingested before the failing one are, and the
\* failing step itself changes nothing in the index.
C21_NoRollbackOnFailure ==
  /\ [](recreate /\ CreateFailed =>
          /\ lancedb.exists
          /\ lancedb.entries = IngestedEntries
          /\ lancedb.entries \cap Aged(prior).entries = {})
  /\ [][(recreate /\ ipc = "ingest" /\ CreateFailed') =>
           lancedb' = lancedb]_vars

\* C21 witness: a recreate=true call that found an index with entries has
\* failed in add_content after ingesting at least one file, with files left.
C21_Witness ==
  /\ recreate
  /\ iresult = "AddContentError"
  /\ prior.entries # {}
  /\ ingested # {}
  /\ NextToIngest(ingested) # {}
  /\ lancedb.entries = IngestedEntries

\* processed is true for the file now in the uploader.
ProcessedCurrentFile ==
  /\ sess.initialized = "True"
  /\ sess.processed = "True"
  /\ uploaded.name # "None"
  /\ sess.processed_file = uploaded.name

\* What a pipeline run touches: the outputs directory, the batch and its
\* results, the synthesis calls, the index and the indexer's position.
runVars ==
  <<outputs, swept, pdf, tasks, finished, results, pages, page_outputs,
    final_report_text, synth, indexVars>>

\* C22: in the Streamlit session, while processed is true for the uploaded
\* file a click on "Process report" wipes no output and starts no extraction,
\* analysis, synthesis or indexing; a pipeline run starts only from a state
\* in which processed is false for the uploaded file; and processed goes back
\* to false only on Reset (which also clears final_text) or on an upload whose
\* file name differs from processed_file.
C22_ProcessedFlagStopsReruns ==
  [][entry = "st" =>
       /\ (pc = "idle" /\ ProcessedCurrentFile /\ process_clicked') =>
            (pc' = "idle" /\ UNCHANGED runVars /\ sess'.processed = "True")
       /\ (pc = "idle" /\ pc' # "idle") =>
            (process_clicked' /\ ~ProcessedCurrentFile)
       /\ (sess.processed = "True" /\ sess'.processed # "True") =>
            \/ sess.final_text # None /\ sess'.final_text = None
            \/ /\ uploaded' # uploaded
               /\ uploaded'.name # "None"
               /\ uploaded'.name # sess.processed_file]_vars

\* C22 witness: "Process report" was clicked for the last script run while
\* processed was true for the uploaded file, after a run whose index build
\* failed: the script ended without starting the pipeline and the index is
\* still the one the failed build left.
C22_Witness ==
  /\ entry = "st"
  /\ pc = "idle"
  /\ process_clicked
  /\ ended = "ok"
  /\ ProcessedCurrentFile
  /\ sess.kb_ready # "True"
  /\ outputs[FinalReportFile] # NoFile

\* C23: an index rebuild changes only the index directory: whatever the
\* value of recreate, and whether the call returns or raises, no step of
\* create_vectordb_from_pdfs_and_outputs changes the entries of the pdfs
\* directory or the files of the outputs directory and their contents.
C23_RebuildLeavesTxtDirs ==
  [][UNCHANGED <<pdfsDir, outputs>>]_vars

\* C23 witness: a recreate=true call that found an index directory and text
\* files in both directories has ended, and the files it globbed are the
\* files the two directories hold.
C23_Witness ==
  /\ recreate
  /\ prior.exists
  /\ iresult \in {"returned", "AddContentError"}
  /\ pdf_txt_files # {}
  /\ output_txt_files # {}
  /\ pdf_txt_files = PdfTxtFiles(pdfsDir)
  /\ output_txt_files = OutputTxtFiles(outputs)

============================================================================
